---------------------------- MODULE Spec2Model ----------------------------
(***************************************************************************)
(* Retry loops and posting pipeline of the bot:                            *)
(*   app/rate_limit.py    signal_shutdown, interruptible_sleep,            *)
(*                        RateLimitWrapper.call_with_backoff               *)
(*   app/src/posting.py   _backoff_try, post_safe                          *)
(*   app/llm_provider.py  _call_groq_chat                                  *)
(* Every thread runs one entry point; a thread's position is pc[t].        *)
(***************************************************************************)
EXTENDS Integers, Sequences, FiniteSets, TLC

VARIABLES
    shutdown_event,   \* rate_limit._shutdown_event (threading.Event flag)
    kind,             \* entry point a thread runs: "cwb", "bt", "groq", "post",
                      \* "trunc", "off"
    env,              \* outcomes the wrapped remote call of a thread can produce
    pc,               \* position of the thread in its code
    max_retries,      \* parameter max_retries / retries of the running loop
    initial_backoff,  \* parameter initial_backoff (call_with_backoff)
    attempt,          \* loop variable attempt
    backoff,          \* local backoff
    sleep_time,       \* local sleep_time of the sleep begun last
    last_exc,         \* exception the call raised last (<<>> when none)
    now_read,         \* int(time.time()) read by _get_retry_after last
    calls,            \* number of invocations of the wrapped call
    sleeps,           \* number of interruptible_sleep calls begun
    fails,            \* number of invocations that raised a transient (429) error
    fatals,           \* number of invocations that raised any other error
    last_ret,         \* value the wrapped call returned last (<<>> when none)
    result,           \* value the function that ended last returned (<<>>: None)
    raised,           \* exception the function that ended last raised (NoExc: none)
    dry_run,          \* Config.DRY_RUN
    drafts,           \* the audit table of app/src/db.py, by draft id
    quota,            \* QuotaManager: timestamps of the events recorded, per scope
    admit_calls,      \* QuotaManager admissions requested, per caller
    last_admit,       \* scopes and answer of a caller's last admission (<<>>: none)
    clock,            \* the time the QuotaManager reads
    text,             \* argument text of post_safe or of _truncate_to_tweet
    context,          \* post_safe argument context (<<>>: None)
    twitter_client,   \* post_safe argument twitter_client (FALSE: None)
    in_reply_to,      \* post_safe argument in_reply_to_tweet_id (<<>>: None)
    draft_id,         \* post_safe local draft_id (0 before save_draft)
    tweet_kwargs,     \* post_safe local tweet_kwargs (<<>> before it is built)
    entry,            \* entry point of the process: "main", "main_oauth", "none"
    main_pc,          \* position of the main thread
    stop_event,       \* main.stop_event
    sched,            \* the BotScheduler: "running" or "shutdown"
    signum            \* signal delivered last (<<>>: none)

loopVars == <<kind, env, pc, max_retries, initial_backoff, attempt, backoff,
              sleep_time, last_exc, now_read, calls, sleeps, fails, fatals,
              last_ret, result, raised>>

\* the state only post_safe and the QuotaManager touch
postVars == <<dry_run, drafts, quota, admit_calls, last_admit, clock, text, context, twitter_client,
              in_reply_to, draft_id, tweet_kwargs>>

\* the state of the main thread of the process
mainVars == <<entry, main_pc, stop_event, sched, signum>>

vars == <<shutdown_event, loopVars, postVars, mainVars>>

\* ------------------------------------------------------------------ bounds

\* largest max_retries a caller passes to call_with_backoff
MaxRetriesBound == 2
\* ceiling of every quota scope
QuotaCeiling == 1
\* admissions a caller requests
MaxAdmits == 2
\* rows the audit table holds before post_safe runs
MaxPriorDrafts == 1
\* length of the window of an hourly and of a daily scope, in clock units
HourWindow == 1
DayWindow == 2
\* last reading of the clock
MaxClock == 4
\* how far past the length cap the texts given to _truncate_to_tweet go
MaxOver == 3

\* worker threads of the process (the scheduler's pool)
Threads == {"t1", "t2"}

\* ------------------------------------------------------- program constants

MAX_RETRIES == 6
INITIAL_BACKOFF == 1
MAX_BACKOFF == 300
HTTP_TOO_MANY == 429

Min(a, b) == IF a <= b THEN a ELSE b
Max(a, b) == IF a >= b THEN a ELSE b

\* ------------------------------------------------- errors of a remote call

\* An exception a remote call raises.  has_response: the exception has an
\* attribute `response`; status: response.status_code; ra_*: the header
\* 'retry-after' ("absent", "int": parses as ra_val, "garbage": int() raises);
\* rs_*: the header 'x-rate-limit-reset'.
Exc(cls, hasResp, status, raKind, raVal, rsKind, rsVal) ==
    [cls |-> cls, has_response |-> hasResp, status |-> status,
     ra_kind |-> raKind, ra_val |-> raVal, rs_kind |-> rsKind, rs_val |-> rsVal]

RetryAfterValues == {0, 5, 400}
ResetTimes == {990, 1003, 1010}
ClockReadings == {1000, 1003}

FatalErrors ==
    { Exc("ValueError", FALSE, 0, "absent", 0, "absent", 0),
      Exc("HTTPException", TRUE, 500, "int", 5, "absent", 0) }

TransientErrors ==
    { Exc("TooManyRequests", TRUE, HTTP_TOO_MANY, "absent", 0, "absent", 0),
      Exc("TooManyRequests", TRUE, HTTP_TOO_MANY, "garbage", 0, "absent", 0),
      Exc("TooManyRequests", TRUE, HTTP_TOO_MANY, "garbage", 0, "int", 1010),
      Exc("TooManyRequests", TRUE, HTTP_TOO_MANY, "int", 5, "int", 1010) }
    \cup { Exc("TooManyRequests", TRUE, HTTP_TOO_MANY, "int", h, "absent", 0) :
             h \in RetryAfterValues }
    \cup { Exc("TooManyRequests", TRUE, HTTP_TOO_MANY, "absent", 0, "int", r) :
             r \in ResetTimes }

FuncErrors == FatalErrors \cup TransientErrors

\* An identifier in a response: a str or an int (by its digits), or None.
IdStr(d) == [type |-> "str", digits |-> d]
IdInt(d) == [type |-> "int", digits |-> d]
IdNone == [type |-> "none", digits |-> ""]

\* A value a remote call returns.  shape "object": resp.data exists and the id
\* is its attribute `id` (absent: IdNone); "mapping": a dict, the id is its
\* key "id" (absent: IdNone); "other": a truthy value of neither shape.
Response(shape, id) == [shape |-> shape, id |-> id]

GoodIds == {IdStr("1849"), IdInt("77")}
Responses ==
    { Response(sh, id) : sh \in {"object", "mapping"}, id \in GoodIds \cup {IdNone} }
    \cup { Response("other", IdNone) }

\* values the call wrapped by a bare retry loop returns
Results == { Response("object", IdStr("1849")), Response("mapping", IdInt("77")) }

\* an outcome of one invocation of the wrapped call
Ok(v) == [ok |-> TRUE, val |-> <<v>>, exc |-> <<>>]
Fail(e) == [ok |-> FALSE, val |-> <<>>, exc |-> <<e>>]
Outcomes == { Ok(v) : v \in Results } \cup { Fail(e) : e \in FuncErrors }

\* what an entry point raised: the exception class, the exception itself when
\* it is the call's own error re-raised, and its __cause__ (raise ... from e)
NoExc == [cls |-> "none", self |-> <<>>, cause |-> <<>>]
Reraise(e) == [cls |-> e.cls, self |-> <<e>>, cause |-> <<>>]
RateLimitException(e) == [cls |-> "RateLimitException", self |-> <<>>, cause |-> <<e>>]
KeyboardInterrupt == [cls |-> "KeyboardInterrupt", self |-> <<>>, cause |-> <<>>]

\* raise RateLimitException('Unexpected rate limit retry exhaustion')
Unexpected == [cls |-> "RateLimitException", self |-> <<>>, cause |-> <<>>]

\* ------------------------------------------------------- shutdown and sleep

\* a second call taking the request back (clear() on a set event)
signal_shutdown_Toggle ==
    /\ shutdown_event' = ~shutdown_event
    /\ UNCHANGED <<loopVars, postVars>>

\* signal_shutdown(): _shutdown_event.set()
signal_shutdown ==
    /\ shutdown_event' = TRUE
    /\ UNCHANGED <<loopVars, postVars>>

\* signal_shutdown() called at any moment, the main thread not being modelled
RequestShutdown == signal_shutdown /\ UNCHANGED mainVars

\* a sleep that does not look at the event (time.sleep)
interruptible_sleep_Uninterruptible == TRUE

\* interruptible_sleep(seconds) at the moment the wait ends:
\* not _shutdown_event.wait(timeout=seconds); TRUE when the sleep completed.
interruptible_sleep == ~shutdown_event

\* ------------------------------------------------------- RateLimitWrapper

\* any error with a response counted as a rate limit
is_rate_limit_error_AnyResponse(e) == e.has_response

\* _is_rate_limit_error(exception)
is_rate_limit_error(e) ==
    IF e.has_response THEN e.status = HTTP_TOO_MANY ELSE FALSE

\* _get_retry_after(exception), with now = int(time.time()); <<>> is None
get_retry_after(e, now) ==
    IF ~e.has_response THEN <<>>
    ELSE IF e.ra_kind = "int" THEN <<e.ra_val>>
    ELSE IF e.ra_kind = "garbage" THEN <<>>
    ELSE IF e.rs_kind = "int" THEN <<Max(1, e.rs_val - now)>>
    ELSE IF e.rs_kind = "garbage" THEN <<>>
    ELSE <<>>

\* Python truthiness of an Optional[int]
Truthy(opt) == opt # <<>> /\ opt[1] # 0

\* sleep_time = retry_after if retry_after else min(backoff, MAX_BACKOFF)
SleepTime(retry_after, b) ==
    IF Truthy(retry_after) THEN retry_after[1] ELSE Min(b, MAX_BACKOFF)

\* the backoff left as it is after a sleep
NextBackoff_NoDouble(b) == Min(b, MAX_BACKOFF)

\* backoff = min(backoff * 2, MAX_BACKOFF)
NextBackoff(b) == Min(b * 2, MAX_BACKOFF)

\* range(max_retries)
CwbAttempts_OffByOne(mr) == mr

\* range(max_retries + 1)
CwbAttempts(mr) == mr + 1

\* the last 429 error let through as it is
CwbExhausted_Reraise(e) == Reraise(e)

\* the error raised when the retries are used up
CwbExhausted(e) == RateLimitException(e)

\* bookkeeping of the failures seen, by the kind of error the call raised
CountFailure(t, e) ==
    /\ fails' = [fails EXCEPT ![t] = IF e \in TransientErrors THEN @ + 1 ELSE @]
    /\ fatals' = [fatals EXCEPT ![t] = IF e \in TransientErrors THEN @ ELSE @ + 1]

\* func(*args, **kwargs) without the return
CwbReturn_Dropped(v) == <<>>

\* return func(*args, **kwargs)
CwbReturn(v) == <<v>>

Finish(t, val, exc) ==
    /\ pc' = [pc EXCEPT ![t] = IF exc = NoExc THEN "returned" ELSE "raised"]
    /\ result' = [result EXCEPT ![t] = val]
    /\ raised' = [raised EXCEPT ![t] = exc]

\* call_with_backoff: backoff = initial_backoff; enter the for loop
CwbEnter(t) ==
    /\ kind[t] = "cwb" /\ pc[t] = "start"
    /\ backoff' = [backoff EXCEPT ![t] = initial_backoff[t]]
    /\ attempt' = [attempt EXCEPT ![t] = 0]
    /\ IF 0 < CwbAttempts(max_retries[t])
       THEN /\ pc' = [pc EXCEPT ![t] = "cwb_call"]
            /\ UNCHANGED <<result, raised>>
       ELSE \* the loop body never runs: line 122
            Finish(t, <<>>, Unexpected)
    /\ UNCHANGED <<postVars, mainVars>>
    /\ UNCHANGED <<shutdown_event, kind, env, max_retries, initial_backoff,
                   sleep_time, last_exc, now_read, calls, sleeps, fails, fatals,
                   last_ret>>

\* the except block of call_with_backoff for the exception e
CwbOnError(t, e, now) ==
    IF ~is_rate_limit_error(e)
    THEN /\ Finish(t, <<>>, Reraise(e))
         /\ UNCHANGED <<sleep_time, sleeps, now_read>>
    ELSE IF attempt[t] >= max_retries[t]
    THEN /\ Finish(t, <<>>, CwbExhausted(e))
         /\ UNCHANGED <<sleep_time, sleeps, now_read>>
    ELSE /\ sleep_time' = [sleep_time EXCEPT ![t] =
                              SleepTime(get_retry_after(e, now), backoff[t])]
         /\ now_read' = [now_read EXCEPT ![t] = now]
         /\ sleeps' = [sleeps EXCEPT ![t] = @ + 1]
         /\ pc' = [pc EXCEPT ![t] = "cwb_sleep"]
         /\ UNCHANGED <<result, raised>>

\* one iteration: return func(*args, **kwargs), or the except block up to the
\* start of the sleep
CwbCall(t) ==
    /\ kind[t] = "cwb" /\ pc[t] = "cwb_call"
    /\ calls' = [calls EXCEPT ![t] = @ + 1]
    /\ \E o \in env[t] :
         IF o.ok
         THEN /\ last_ret' = [last_ret EXCEPT ![t] = o.val]
              /\ Finish(t, CwbReturn(o.val[1]), NoExc)
              /\ UNCHANGED <<sleep_time, sleeps, now_read, last_exc, fails, fatals>>
         ELSE /\ last_exc' = [last_exc EXCEPT ![t] = o.exc]
              /\ CountFailure(t, o.exc[1])
              /\ \E now \in ClockReadings : CwbOnError(t, o.exc[1], now)
              /\ UNCHANGED last_ret
    /\ UNCHANGED <<postVars, mainVars>>
    /\ UNCHANGED <<shutdown_event, kind, env, max_retries, initial_backoff,
                   attempt, backoff>>

\* interruptible_sleep returns: interrupted -> KeyboardInterrupt, else double
\* the backoff and go to the next iteration
CwbWake(t) ==
    /\ kind[t] = "cwb" /\ pc[t] = "cwb_sleep"
    /\ IF ~interruptible_sleep
       THEN /\ Finish(t, <<>>, KeyboardInterrupt)
            /\ UNCHANGED <<backoff, attempt>>
       ELSE /\ backoff' = [backoff EXCEPT ![t] = NextBackoff(@)]
            /\ attempt' = [attempt EXCEPT ![t] = @ + 1]
            /\ IF attempt[t] + 1 < CwbAttempts(max_retries[t])
               THEN /\ pc' = [pc EXCEPT ![t] = "cwb_call"]
                    /\ UNCHANGED <<result, raised>>
               ELSE \* the loop is over: line 122
                    Finish(t, <<>>, Unexpected)
    /\ UNCHANGED <<postVars, mainVars>>
    /\ UNCHANGED <<shutdown_event, kind, env, max_retries, initial_backoff,
                   sleep_time, last_exc, now_read, calls, sleeps, fails, fatals,
                   last_ret>>

call_with_backoff(t) == CwbEnter(t) \/ CwbCall(t) \/ CwbWake(t)

\* ------------------------------------------------------------ _backoff_try

\* Durations of _backoff_try and _call_groq_chat are floats; they are kept
\* exactly, in ticks of 1/256 s.
Ticks == 2 ^ 8

\* defaults of _backoff_try: max_retries=5, base=1.5
BT_MAX_RETRIES == 5
BtBase == (3 * Ticks) \div 2

\* backoff *= base
BtNextBackoff(b) == (b * 3) \div 2

\* random.random(): a float in [0, 1)
RandomTicks == {0, Ticks \div 2, Ticks - 1}

\* range(max_retries)
BtAttempts(mr) == mr

\* _backoff_try ends: a thread that runs it alone is done, post_safe goes on
\* at its line 61 (or in its except clause) with the value or the exception
BtExit(t, val, exc) ==
    /\ pc' = [pc EXCEPT ![t] = IF kind[t] = "post" THEN "ps_resp"
                                ELSE IF exc = NoExc THEN "returned" ELSE "raised"]
    /\ result' = [result EXCEPT ![t] = val]
    /\ raised' = [raised EXCEPT ![t] = exc]

\* backoff = base; enter the for loop (an empty range returns None)
BtEnter(t) ==
    /\ \/ kind[t] = "bt" /\ pc[t] = "start"
       \/ kind[t] = "post" /\ pc[t] = "bt_start"
    /\ backoff' = [backoff EXCEPT ![t] = BtBase]
    /\ attempt' = [attempt EXCEPT ![t] = 0]
    /\ IF 0 < BtAttempts(max_retries[t])
       THEN /\ pc' = [pc EXCEPT ![t] = "bt_call"]
            /\ UNCHANGED <<result, raised>>
       ELSE BtExit(t, <<>>, NoExc)
    /\ UNCHANGED <<postVars, mainVars>>
    /\ UNCHANGED <<shutdown_event, kind, env, max_retries, initial_backoff,
                   sleep_time, last_exc, now_read, calls, sleeps, fails, fatals,
                   last_ret>>

\* one iteration: return func(*args, **kwargs), or the except block up to the
\* start of the sleep
BtCall(t) ==
    /\ pc[t] = "bt_call"
    /\ calls' = [calls EXCEPT ![t] = @ + 1]
    /\ \E o \in env[t] :
         IF o.ok
         THEN /\ last_ret' = [last_ret EXCEPT ![t] = o.val]
              /\ BtExit(t, o.val, NoExc)
              /\ UNCHANGED <<sleep_time, sleeps, last_exc, fails, fatals>>
         ELSE /\ last_exc' = [last_exc EXCEPT ![t] = o.exc]
              /\ CountFailure(t, o.exc[1])
              /\ UNCHANGED last_ret
              /\ IF attempt[t] = max_retries[t] - 1
                 THEN /\ BtExit(t, <<>>, Reraise(o.exc[1]))
                      /\ UNCHANGED <<sleep_time, sleeps>>
                 ELSE /\ \E r \in RandomTicks :
                           sleep_time' = [sleep_time EXCEPT ![t] = backoff[t] + r]
                      /\ sleeps' = [sleeps EXCEPT ![t] = @ + 1]
                      /\ pc' = [pc EXCEPT ![t] = "bt_sleep"]
                      /\ UNCHANGED <<result, raised>>
    /\ UNCHANGED <<postVars, mainVars>>
    /\ UNCHANGED <<shutdown_event, kind, env, max_retries, initial_backoff,
                   attempt, backoff, now_read>>

\* interruptible_sleep returns: interrupted -> KeyboardInterrupt, else
\* backoff *= base and the next iteration
BtWake(t) ==
    /\ pc[t] = "bt_sleep"
    /\ IF ~interruptible_sleep
       THEN /\ BtExit(t, <<>>, KeyboardInterrupt)
            /\ UNCHANGED <<backoff, attempt>>
       ELSE /\ backoff' = [backoff EXCEPT ![t] = BtNextBackoff(@)]
            /\ attempt' = [attempt EXCEPT ![t] = @ + 1]
            /\ IF attempt[t] + 1 < BtAttempts(max_retries[t])
               THEN /\ pc' = [pc EXCEPT ![t] = "bt_call"]
                    /\ UNCHANGED <<result, raised>>
               ELSE BtExit(t, <<>>, NoExc)
    /\ UNCHANGED <<postVars, mainVars>>
    /\ UNCHANGED <<shutdown_event, kind, env, max_retries, initial_backoff,
                   sleep_time, last_exc, now_read, calls, sleeps, fails, fatals,
                   last_ret>>

backoff_try(t) == BtEnter(t) \/ BtCall(t) \/ BtWake(t)

\* --------------------------------------------------------- _call_groq_chat

\* default of _call_groq_chat: retries=2 (backoff=1.5)
GROQ_RETRIES == 2

\* sleep_time = backoff ** (attempt + 1), in ticks
GroqSleepTime(a) == (Ticks * 3 ^ (a + 1)) \div 2 ^ (a + 1)

\* client = _get_client(); enter the for loop
GroqEnter(t) ==
    /\ kind[t] = "groq" /\ pc[t] = "start"
    /\ attempt' = [attempt EXCEPT ![t] = 0]
    /\ pc' = [pc EXCEPT ![t] = "groq_call"]
    /\ UNCHANGED <<postVars, mainVars>>
    /\ UNCHANGED <<shutdown_event, kind, env, max_retries, initial_backoff,
                   backoff, sleep_time, last_exc, now_read, calls, sleeps,
                   fails, fatals, last_ret, result, raised>>

\* one iteration: the completion is returned, or the except block up to the
\* start of the sleep
GroqCall(t) ==
    /\ kind[t] = "groq" /\ pc[t] = "groq_call"
    /\ calls' = [calls EXCEPT ![t] = @ + 1]
    /\ \E o \in env[t] :
         IF o.ok
         THEN /\ last_ret' = [last_ret EXCEPT ![t] = o.val]
              /\ Finish(t, o.val, NoExc)
              /\ UNCHANGED <<sleep_time, sleeps, last_exc, fails, fatals>>
         ELSE /\ last_exc' = [last_exc EXCEPT ![t] = o.exc]
              /\ CountFailure(t, o.exc[1])
              /\ UNCHANGED last_ret
              /\ IF attempt[t] < max_retries[t]
                 THEN /\ sleep_time' = [sleep_time EXCEPT ![t] = GroqSleepTime(attempt[t])]
                      /\ sleeps' = [sleeps EXCEPT ![t] = @ + 1]
                      /\ pc' = [pc EXCEPT ![t] = "groq_sleep"]
                      /\ UNCHANGED <<result, raised>>
                 ELSE /\ Finish(t, <<>>, Reraise(o.exc[1]))
                      /\ UNCHANGED <<sleep_time, sleeps>>
    /\ UNCHANGED <<postVars, mainVars>>
    /\ UNCHANGED <<shutdown_event, kind, env, max_retries, initial_backoff,
                   attempt, backoff, now_read>>

\* interruptible_sleep returns: interrupted -> KeyboardInterrupt, else the
\* next iteration
GroqWake(t) ==
    /\ kind[t] = "groq" /\ pc[t] = "groq_sleep"
    /\ IF ~interruptible_sleep
       THEN /\ Finish(t, <<>>, KeyboardInterrupt)
            /\ UNCHANGED attempt
       ELSE /\ attempt' = [attempt EXCEPT ![t] = @ + 1]
            /\ pc' = [pc EXCEPT ![t] = "groq_call"]
            /\ UNCHANGED <<result, raised>>
    /\ UNCHANGED <<postVars, mainVars>>
    /\ UNCHANGED <<shutdown_event, kind, env, max_retries, initial_backoff,
                   backoff, sleep_time, last_exc, now_read, calls, sleeps,
                   fails, fatals, last_ret>>

call_groq_chat(t) == GroqEnter(t) \/ GroqCall(t) \/ GroqWake(t)

\* ------------------------------------------------------ _truncate_to_tweet

\* the literals of _truncate_to_tweet: len(text) <= 280 and [:280]; text[:275];
\* len(last_sent) > 50; trunc[:277]
TweetLimit == 280
TruncAt == 275
MinSentence == 50
EllipsisAt == 277

\* a text is the sequence of its characters
Chars(n, c) == [i \in 1..n |-> c]

\* s[:n]
Slice(s, n) == SubSeq(s, 1, Min(n, Len(s)))

\* str.strip(): leading and trailing whitespace removed
Whitespace == {" ", "\n", "\t"}
Strip(s) ==
    LET keep == { i \in 1..Len(s) : s[i] \notin Whitespace } IN
    IF keep = {} THEN <<>>
    ELSE SubSeq(s, CHOOSE i \in keep : \A j \in keep : i <= j,
                   CHOOSE i \in keep : \A j \in keep : i >= j)

\* s.rsplit('.', 1)[0]: what precedes the last '.', all of s when it has none
RsplitDotHead(s) ==
    LET dots == { i \in 1..Len(s) : s[i] = "." } IN
    IF dots = {} THEN s
    ELSE SubSeq(s, 1, (CHOOSE i \in dots : \A j \in dots : i >= j) - 1)

\* the sentence cut taken from the whole text, not from text[:275]
truncate_to_tweet_NoSlice(txt) ==
    IF Len(txt) <= TweetLimit THEN txt
    ELSE LET last_sent == RsplitDotHead(txt) IN
         IF last_sent # <<>> /\ Len(last_sent) > MinSentence
         THEN Strip(last_sent \o <<".">>)
         ELSE Strip(Slice(txt, EllipsisAt) \o Chars(3, "."))

\* _truncate_to_tweet(text)
truncate_to_tweet(txt) ==
    IF Len(txt) <= TweetLimit THEN txt
    ELSE LET trunc == Slice(txt, TruncAt)
             last_sent == RsplitDotHead(trunc)
         IN  IF last_sent # <<>> /\ Len(last_sent) > MinSentence
             THEN Slice(Strip(last_sent \o <<".">>), TweetLimit)
             ELSE Strip(Slice(trunc, EllipsisAt) \o Chars(3, "."))

\* a thread calls _truncate_to_tweet on its text
Truncate(t) ==
    /\ kind[t] = "trunc" /\ pc[t] = "start"
    /\ Finish(t, <<truncate_to_tweet(text[t])>>, NoExc)
    /\ UNCHANGED <<postVars, mainVars>>
    /\ UNCHANGED <<shutdown_event, kind, env, max_retries, initial_backoff,
                   attempt, backoff, sleep_time, last_exc, now_read, calls,
                   sleeps, fails, fatals, last_ret>>

\* ------------------------------------------------ safety, audit table, quota

\* texts a caller hands to post_safe
SafeTexts == {"gm builders"}
UnsafeTexts == {"guaranteed 100x returns"}
Texts == SafeTexts \cup UnsafeTexts

\* safety.passes_safety(text): (ok, reason)
passes_safety(txt) ==
    IF txt \in UnsafeTexts THEN [ok |-> FALSE, reason |-> "forbidden_claim"]
    ELSE [ok |-> TRUE, reason |-> "ok"]

\* a row of the audit table; updates counts the mark_posted / mark_failed
\* calls issued for it
Draft(id, txt, ctx, status, flags) ==
    [id |-> id, text |-> txt, context |-> ctx, status |-> status,
     safety_flags |-> flags, tweet_id |-> "", reason |-> "", updates |-> 0]

\* db.save_draft(text, context, status=..., safety_flags=...): the table with
\* the new row; its id is the next in sequence
save_draft(ds, txt, ctx, status, flags) ==
    Append(ds, Draft(Len(ds) + 1, txt, ctx, status, flags))

\* db.mark_posted(draft_id, tweet_id)
mark_posted(ds, id, tid) ==
    [ds EXCEPT ![id] = [@ EXCEPT !.status = "posted", !.tweet_id = tid,
                                 !.updates = @ + 1]]

\* db.mark_failed(draft_id, reason)
mark_failed(ds, id, why) ==
    [ds EXCEPT ![id] = [@ EXCEPT !.status = "failed", !.reason = why,
                                 !.updates = @ + 1]]

\* QuotaManager: the scopes and the sets of scopes an event belongs to
Scopes == {"replies_hour", "posts_day"}
ScopeSets == { {"posts_day"}, {"replies_hour", "posts_day"} }

\* who can ask the QuotaManager for admission: the scheduler, which holds it
\* (main_oauth.main), and the threads that run post_safe
Callers == {"scheduler"} \cup Threads

\* the sliding window of a scope
Window(s) == IF s = "replies_hour" THEN HourWindow ELSE DayWindow

\* the events of scope s with a timestamp within [now - window, now]
InWindow(q, s, now) == SelectSeq(q[s], LAMBDA e : e >= now - Window(s))

\* window eviction: events older than the window of a scope that is asked
\* for are dropped before counting
Evict(q, S, now) == [s \in Scopes |-> IF s \in S THEN InWindow(q, s, now) ELSE q[s]]

\* a scope counted as having room when it is exactly at its ceiling
QuotaHasRoom_AtCeiling(q, s) == Len(q[s]) <= QuotaCeiling

\* the window count of a scope is under its ceiling
QuotaHasRoom(q, s) == Len(q[s]) < QuotaCeiling

\* the event recorded scope by scope, in each scope that has room
QuotaAdmit_Partial(c, S) ==
    LET q == Evict(quota, S, clock)
        ok == \A s \in S : QuotaHasRoom(q, s)
    IN  /\ admit_calls[c] < MaxAdmits
        /\ admit_calls' = [admit_calls EXCEPT ![c] = @ + 1]
        /\ quota' = [s \in Scopes |-> IF s \in S /\ QuotaHasRoom(q, s)
                                      THEN Append(q[s], clock) ELSE q[s]]
        /\ last_admit' = [last_admit EXCEPT ![c] = <<[scopes |-> S, ok |-> ok]>>]
        /\ UNCHANGED clock

\* admit(scope_set) asked by caller c, one atomic step: all scopes have room
\* -> the event is recorded in each and the answer is true; else nothing is
\* recorded and the answer is false
QuotaAdmit(c, S) ==
    LET q == Evict(quota, S, clock)
        ok == \A s \in S : QuotaHasRoom(q, s)
    IN  /\ admit_calls[c] < MaxAdmits
        /\ admit_calls' = [admit_calls EXCEPT ![c] = @ + 1]
        /\ quota' = IF ok
                    THEN [s \in Scopes |-> IF s \in S THEN Append(q[s], clock) ELSE q[s]]
                    ELSE q
        /\ last_admit' = [last_admit EXCEPT ![c] = <<[scopes |-> S, ok |-> ok]>>]
        /\ UNCHANGED clock

\* a caller asks for admission of an event
Admit(c) ==
    /\ \E S \in ScopeSets : QuotaAdmit(c, S)
    /\ UNCHANGED <<shutdown_event, loopVars, dry_run, drafts, text, context,
                   twitter_client, in_reply_to, draft_id, tweet_kwargs, mainVars>>

\* the scheduler asks for admission of an event
SchedulerAdmit == Admit("scheduler")

\* time passes
Tick ==
    /\ clock < MaxClock
    /\ clock' = clock + 1
    /\ UNCHANGED <<shutdown_event, loopVars, dry_run, drafts, quota, admit_calls,
                   last_admit, text, context, twitter_client, in_reply_to,
                   draft_id, tweet_kwargs, mainVars>>

\* ---------------------------------------------------------------- post_safe

\* Python truthiness of an identifier
IdTruthy(id) ==
    \/ id.type = "str" /\ id.digits # ""
    \/ id.type = "int" /\ id.digits # "0"

\* str(tweet_id)
Str(id) == id.digits

\* only the object shape read
ExtractId_ObjectOnly(r) ==
    IF r = <<>> THEN IdNone
    ELSE IF r[1].shape = "object" THEN r[1].id
    ELSE IdNone

\* line 61: getattr(resp.data, "id", None) if resp and hasattr(resp, "data")
\*          else (resp.get("id") if isinstance(resp, dict) else None)
ExtractId(r) ==
    IF r = <<>> THEN IdNone
    ELSE IF r[1].shape = "object" THEN r[1].id
    ELSE IF r[1].shape = "mapping" THEN r[1].id
    ELSE IdNone

\* str(e) of an exception
ExcStr(x) == x.cls

\* mark_failed(draft_id, "exception:" + str(e))
FailureReason(x) == "exception:" \o ExcStr(x)

loopLocals == <<max_retries, initial_backoff, attempt, backoff, sleep_time,
                last_exc, now_read, calls, sleeps, fails, fatals, last_ret>>

psInputs == <<dry_run, quota, admit_calls, last_admit, clock, text, context,
              twitter_client, in_reply_to, mainVars>>

\* the draft saved once before and once after the safety check
PsSaveDraft_Twice(t) ==
    /\ kind[t] = "post" /\ pc[t] = "start"
    /\ LET s == passes_safety(text[t]) IN
         drafts' = save_draft(save_draft(drafts, text[t], context[t], "queued", ""),
                              text[t], context[t], "queued",
                              IF ~s.ok THEN s.reason ELSE "")
    /\ draft_id' = [draft_id EXCEPT ![t] = Len(drafts) + 2]
    /\ pc' = [pc EXCEPT ![t] = "ps_saved"]
    /\ UNCHANGED <<shutdown_event, kind, env, loopLocals, result, raised,
                   psInputs, tweet_kwargs>>

\* lines 39-40: ok, reason = passes_safety(text); draft_id = save_draft(...)
PsSaveDraft(t) ==
    /\ kind[t] = "post" /\ pc[t] = "start"
    /\ LET s == passes_safety(text[t]) IN
         drafts' = save_draft(drafts, text[t], context[t], "queued",
                              IF ~s.ok THEN s.reason ELSE "")
    /\ draft_id' = [draft_id EXCEPT ![t] = Len(drafts) + 1]
    /\ pc' = [pc EXCEPT ![t] = "ps_saved"]
    /\ UNCHANGED <<shutdown_event, kind, env, loopLocals, result, raised,
                   psInputs, tweet_kwargs>>

\* the rejected text returned without the mark_failed
PsReject_NoMark(t) ==
    /\ kind[t] = "post" /\ pc[t] = "ps_saved"
    /\ ~passes_safety(text[t]).ok
    /\ Finish(t, <<>>, NoExc)
    /\ UNCHANGED <<shutdown_event, kind, env, loopLocals, psInputs, drafts,
                   draft_id, tweet_kwargs>>

\* lines 41-44: if not ok: mark_failed(draft_id, reason); return None
PsReject(t) ==
    /\ kind[t] = "post" /\ pc[t] = "ps_saved"
    /\ ~passes_safety(text[t]).ok
    /\ drafts' = mark_failed(drafts, draft_id[t], passes_safety(text[t]).reason)
    /\ Finish(t, <<>>, NoExc)
    /\ UNCHANGED <<shutdown_event, kind, env, loopLocals, psInputs, draft_id,
                   tweet_kwargs>>

\* the dry-run guard only logging, the post going on
PsDryRun_Sends(t) ==
    /\ kind[t] = "post" /\ pc[t] = "ps_saved"
    /\ passes_safety(text[t]).ok
    /\ dry_run
    /\ max_retries' = [max_retries EXCEPT ![t] = BT_MAX_RETRIES]
    /\ pc' = [pc EXCEPT ![t] = "bt_start"]
    /\ UNCHANGED <<shutdown_event, kind, env, initial_backoff, attempt, backoff,
                   sleep_time, last_exc, now_read, calls, sleeps, fails, fatals,
                   last_ret, result, raised, psInputs, drafts, draft_id,
                   tweet_kwargs>>

\* lines 47-49: if Config.DRY_RUN: return None
PsDryRun(t) ==
    /\ kind[t] = "post" /\ pc[t] = "ps_saved"
    /\ passes_safety(text[t]).ok
    /\ dry_run
    /\ Finish(t, <<>>, NoExc)
    /\ UNCHANGED <<shutdown_event, kind, env, loopLocals, psInputs, drafts,
                   draft_id, tweet_kwargs>>

\* lines 51-52: if twitter_client is None: raise RuntimeError(...)
PsNoClient(t) ==
    /\ kind[t] = "post" /\ pc[t] = "ps_saved"
    /\ passes_safety(text[t]).ok
    /\ ~dry_run
    /\ ~twitter_client[t]
    /\ Finish(t, <<>>, [cls |-> "RuntimeError", self |-> <<>>, cause |-> <<>>])
    /\ UNCHANGED <<shutdown_event, kind, env, loopLocals, psInputs, drafts,
                   draft_id, tweet_kwargs>>

\* lines 55-60: build tweet_kwargs and call
\* _backoff_try(twitter_client.create_tweet, **tweet_kwargs), with its defaults
PsSend(t) ==
    /\ kind[t] = "post" /\ pc[t] = "ps_saved"
    /\ passes_safety(text[t]).ok
    /\ ~dry_run
    /\ twitter_client[t]
    /\ tweet_kwargs' = [tweet_kwargs EXCEPT ![t] =
           <<[text |-> text[t],
              in_reply_to_tweet_id |->
                  IF in_reply_to[t] # <<>> /\ in_reply_to[t][1] # ""
                  THEN in_reply_to[t] ELSE <<>>]>>]
    /\ max_retries' = [max_retries EXCEPT ![t] = BT_MAX_RETRIES]
    /\ pc' = [pc EXCEPT ![t] = "bt_start"]
    /\ UNCHANGED <<shutdown_event, kind, env, initial_backoff, attempt, backoff,
                   sleep_time, last_exc, now_read, calls, sleeps, fails, fatals,
                   last_ret, result, raised, psInputs, drafts, draft_id>>

\* the identifier stored without the test `if tweet_id`
PsOnResponse_NoIdCheck(t) ==
    LET tweet_id == ExtractId(result[t]) IN
    /\ drafts' = mark_posted(drafts, draft_id[t], Str(tweet_id))
    /\ Finish(t, <<Str(tweet_id)>>, NoExc)

\* lines 61-68: the identifier of the response; mark_posted and return it, or
\* mark_failed(draft_id, "no_tweet_id") and return None
PsOnResponse(t) ==
    LET tweet_id == ExtractId(result[t]) IN
    IF IdTruthy(tweet_id)
    THEN /\ drafts' = mark_posted(drafts, draft_id[t], Str(tweet_id))
         /\ Finish(t, <<Str(tweet_id)>>, NoExc)
    ELSE /\ drafts' = mark_failed(drafts, draft_id[t], "no_tweet_id")
         /\ Finish(t, <<>>, NoExc)

\* the failure logged and raised again
PsOnException_Reraise(t) ==
    /\ Finish(t, <<>>, raised[t])
    /\ UNCHANGED drafts

\* except BaseException: the cancellation recorded as a failure too
PsOnException_CatchAll(t) ==
    /\ drafts' = mark_failed(drafts, draft_id[t], FailureReason(raised[t]))
    /\ Finish(t, <<>>, NoExc)

\* lines 69-72: except Exception as e: mark_failed(draft_id, "exception:"+str(e));
\* return None.  KeyboardInterrupt is no Exception: it leaves post_safe.
PsOnException(t) ==
    IF raised[t].cls = "KeyboardInterrupt"
    THEN /\ Finish(t, <<>>, raised[t])
         /\ UNCHANGED drafts
    ELSE /\ drafts' = mark_failed(drafts, draft_id[t], FailureReason(raised[t]))
         /\ Finish(t, <<>>, NoExc)

\* _backoff_try has ended: the rest of the try statement
PsAfterSend(t) ==
    /\ kind[t] = "post" /\ pc[t] = "ps_resp"
    /\ IF raised[t] = NoExc THEN PsOnResponse(t) ELSE PsOnException(t)
    /\ UNCHANGED <<shutdown_event, kind, env, loopLocals, psInputs, draft_id,
                   tweet_kwargs>>

post_safe(t) ==
    \/ PsSaveDraft(t) \/ PsReject(t) \/ PsDryRun(t) \/ PsNoClient(t) \/ PsSend(t)
    \/ backoff_try(t)
    \/ PsAfterSend(t)

\* ------------------------------------------------- main.py, main_oauth.py

Signals == {"SIGINT", "SIGTERM"}

\* SIGINT or SIGTERM is delivered while the main thread waits (main.py:39-40
\* stop_event.wait, main_oauth.py:122-123 signal.pause): the handler that
\* signal.signal installed is entered
DeliverSignal ==
    /\ entry \in {"main", "main_oauth"} /\ main_pc = "wait"
    /\ \E sig \in Signals : signum' = <<sig>>
    /\ main_pc' = "handler"
    /\ UNCHANGED <<shutdown_event, loopVars, postVars, entry, stop_event, sched>>

\* main._stop, line 30: signal_shutdown()
MainStopSignal ==
    /\ entry = "main" /\ main_pc = "handler"
    /\ signal_shutdown
    /\ main_pc' = "stop_set"
    /\ UNCHANGED <<entry, stop_event, sched, signum>>

\* main._stop, line 31: stop_event.set(); the handler returns into the wait
MainStopSet ==
    /\ entry = "main" /\ main_pc = "stop_set"
    /\ stop_event' = TRUE
    /\ main_pc' = "wait"
    /\ UNCHANGED <<shutdown_event, loopVars, postVars, entry, sched, signum>>

\* main.main, line 39: while not stop_event.is_set() ends
MainLeaveLoop ==
    /\ entry = "main" /\ main_pc = "wait"
    /\ stop_event
    /\ main_pc' = "finally"
    /\ UNCHANGED <<shutdown_event, loopVars, postVars, entry, stop_event, sched,
                   signum>>

\* main_oauth.signal_handler: sys.exit(0); SystemExit leaves the try statement
\* of main through its finally clause
OauthSignalHandler ==
    /\ entry = "main_oauth" /\ main_pc = "handler"
    /\ main_pc' = "finally"
    /\ UNCHANGED <<shutdown_event, loopVars, postVars, entry, stop_event, sched,
                   signum>>

\* finally: sched.shutdown() (main.py:45), scheduler.shutdown()
\* (main_oauth.py:127)
SchedulerShutdown ==
    /\ main_pc = "finally"
    /\ sched' = "shutdown"
    /\ main_pc' = "exited"
    /\ UNCHANGED <<shutdown_event, loopVars, postVars, entry, stop_event, signum>>

main_thread ==
    \/ DeliverSignal \/ MainStopSignal \/ MainStopSet \/ MainLeaveLoop
    \/ OauthSignalHandler \/ SchedulerShutdown

\* ----------------------------------------------------------- specifications

InitialBackoffs == {INITIAL_BACKOFF, 200, 400}

TypeShape ==
    /\ shutdown_event \in BOOLEAN
    /\ kind \in [Threads -> {"cwb", "bt", "groq", "post", "trunc", "off"}]
    /\ pc \in [Threads -> {"start"}]
    /\ attempt \in [Threads -> {0}]
    /\ backoff \in [Threads -> {0}]
    /\ sleep_time \in [Threads -> {0}]
    /\ last_exc \in [Threads -> {<<>>}]
    /\ now_read \in [Threads -> {0}]
    /\ calls \in [Threads -> {0}]
    /\ sleeps \in [Threads -> {0}]
    /\ fails \in [Threads -> {0}]
    /\ fatals \in [Threads -> {0}]
    /\ last_ret \in [Threads -> {<<>>}]
    /\ result \in [Threads -> {<<>>}]
    /\ raised \in [Threads -> {NoExc}]
    /\ draft_id \in [Threads -> {0}]
    /\ tweet_kwargs \in [Threads -> {<<>>}]

\* no process entry point is modelled
NoMain ==
    /\ entry = "none"
    /\ main_pc = "wait"
    /\ stop_event = FALSE
    /\ sched = "running"
    /\ signum = <<>>

\* no thread runs post_safe: its arguments and the tables do not matter
NoPosting ==
    /\ dry_run = TRUE
    /\ drafts = <<>>
    /\ quota = [s \in Scopes |-> <<>>]
    /\ admit_calls = [c \in Callers |-> 0]
    /\ last_admit = [c \in Callers |-> <<>>]
    /\ clock = 0
    /\ text = [t \in Threads |-> ""]
    /\ context = [t \in Threads |-> <<>>]
    /\ twitter_client = [t \in Threads |-> FALSE]
    /\ in_reply_to = [t \in Threads |-> <<>>]

\* One thread runs call_with_backoff, with a small max_retries or the default,
\* around a call that can produce every outcome; signal_shutdown can come at
\* any moment.
Init ==
    /\ TypeShape /\ NoPosting /\ NoMain
    /\ shutdown_event = FALSE
    /\ kind = [t \in Threads |-> IF t = "t1" THEN "cwb" ELSE "off"]
    /\ env = [t \in Threads |-> IF t = "t1" THEN Outcomes ELSE {}]
    /\ \E mr \in (-1..MaxRetriesBound) \cup {MAX_RETRIES} :
         max_retries = [t \in Threads |-> IF t = "t1" THEN mr ELSE 0]
    /\ \E ib \in InitialBackoffs :
         initial_backoff = [t \in Threads |-> IF t = "t1" THEN ib ELSE INITIAL_BACKOFF]

Next ==
    \/ RequestShutdown
    \/ \E t \in Threads : call_with_backoff(t)

Spec == Init /\ [][Next]_vars

\* Both threads run a retry loop each (any of the three), around a call that
\* returns, fails with a 429 error or fails otherwise; signal_shutdown can
\* come at any moment.
LoopOutcomes ==
    { Ok(Response("object", IdStr("1849"))),
      Fail(Exc("TooManyRequests", TRUE, HTTP_TOO_MANY, "absent", 0, "absent", 0)),
      Fail(Exc("TooManyRequests", TRUE, HTTP_TOO_MANY, "int", 5, "absent", 0)),
      Fail(Exc("HTTPException", TRUE, 500, "int", 5, "absent", 0)) }

LoopRetries(k) ==
    CASE k = "cwb" -> 1..MaxRetriesBound
      [] k = "bt" -> {MaxRetriesBound}
      [] k = "groq" -> {GROQ_RETRIES}

InitLoops ==
    /\ TypeShape /\ NoPosting /\ NoMain
    /\ shutdown_event \in BOOLEAN
    /\ kind \in [Threads -> {"cwb", "bt", "groq"}]
    /\ env = [t \in Threads |-> LoopOutcomes]
    /\ max_retries \in [Threads -> 1..Max(MaxRetriesBound, GROQ_RETRIES)]
    /\ \A t \in Threads : max_retries[t] \in LoopRetries(kind[t])
    /\ initial_backoff = [t \in Threads |-> INITIAL_BACKOFF]

LoopStep(t) == call_with_backoff(t) \/ backoff_try(t) \/ call_groq_chat(t)

NextLoops ==
    \/ RequestShutdown
    \/ \E t \in Threads : LoopStep(t)

\* A thread that can take a step takes it: a sleeping thread is woken by the
\* event or by the timeout, a running one goes on.
SpecLoops == InitLoops /\ [][NextLoops]_vars /\ \A t \in Threads : WF_vars(LoopStep(t))

\* Thread t1 runs post_safe, for every argument and both settings of DRY_RUN,
\* around a create_tweet that returns any response or fails; the audit table
\* holds earlier rows; the scheduler asks for quota admissions and
\* signal_shutdown can come at any moment.
PostOutcomes ==
    { Ok(r) : r \in Responses }
    \cup { Fail(Exc("TooManyRequests", TRUE, HTTP_TOO_MANY, "absent", 0, "absent", 0)),
           Fail(Exc("HTTPException", TRUE, 500, "int", 5, "absent", 0)) }

PriorDraft(i) ==
    [Draft(i, "gm builders", <<>>, "posted", "") EXCEPT !.tweet_id = "1848",
                                                         !.updates = 1]

InitPost ==
    /\ TypeShape /\ NoMain
    /\ shutdown_event = FALSE
    /\ kind = [t \in Threads |-> IF t = "t1" THEN "post" ELSE "off"]
    /\ env = [t \in Threads |-> IF t = "t1" THEN PostOutcomes ELSE {}]
    /\ max_retries = [t \in Threads |-> 0]
    /\ initial_backoff = [t \in Threads |-> INITIAL_BACKOFF]
    /\ dry_run \in BOOLEAN
    /\ \E n \in 0..MaxPriorDrafts : drafts = [i \in 1..n |-> PriorDraft(i)]
    /\ quota = [s \in Scopes |-> <<>>]
    /\ admit_calls = [c \in Callers |-> 0]
    /\ last_admit = [c \in Callers |-> <<>>]
    /\ clock = 0
    /\ \E x \in Texts : text = [t \in Threads |-> IF t = "t1" THEN x ELSE ""]
    /\ \E x \in {<<>>, <<"mention">>} :
         context = [t \in Threads |-> IF t = "t1" THEN x ELSE <<>>]
    /\ \E x \in BOOLEAN :
         twitter_client = [t \in Threads |-> IF t = "t1" THEN x ELSE FALSE]
    /\ \E x \in {<<>>, <<"1001">>} :
         in_reply_to = [t \in Threads |-> IF t = "t1" THEN x ELSE <<>>]

NextPost ==
    \/ RequestShutdown
    \/ SchedulerAdmit
    \/ \E t \in Threads : post_safe(t)

SpecPost == InitPost /\ [][NextPost]_vars

\* The scheduler and its worker threads ask the one QuotaManager for
\* admissions, in any order and for any scope set, while time passes; no
\* thread runs a retry loop or post_safe.
InitQuota ==
    /\ TypeShape /\ NoPosting /\ NoMain
    /\ shutdown_event = FALSE
    /\ kind = [t \in Threads |-> "off"]
    /\ env = [t \in Threads |-> {}]
    /\ max_retries = [t \in Threads |-> 0]
    /\ initial_backoff = [t \in Threads |-> INITIAL_BACKOFF]

NextQuota ==
    \/ Tick
    \/ \E c \in Callers : Admit(c)

SpecQuota == InitQuota /\ [][NextQuota]_vars

\* Thread t1 calls _truncate_to_tweet on a text of letters with full stops
\* and blanks at the places the function looks at, of a length around each
\* of its thresholds.
TextLengths ==
    {0, 1, MinSentence, MinSentence + 1, MinSentence + 2}
    \cup ((TruncAt - 1)..(TweetLimit + MaxOver))
DotPlaces ==
    {1, MinSentence, MinSentence + 1, MinSentence + 2, TruncAt - 1, TruncAt,
     TruncAt + 1, TweetLimit}
DotSets == { D \in SUBSET DotPlaces : Cardinality(D) <= 2 }
BlankSets == { {}, {1}, {1, 2}, {TruncAt - 1, TruncAt} }
MakeText(n, D, B) ==
    [i \in 1..n |-> IF i \in D THEN "." ELSE IF i \in B THEN " " ELSE "a"]
TruncTexts == { MakeText(n, D, B) : n \in TextLengths, D \in DotSets, B \in BlankSets }

InitTrunc ==
    /\ TypeShape /\ NoMain
    /\ shutdown_event = FALSE
    /\ kind = [t \in Threads |-> IF t = "t1" THEN "trunc" ELSE "off"]
    /\ env = [t \in Threads |-> {}]
    /\ max_retries = [t \in Threads |-> 0]
    /\ initial_backoff = [t \in Threads |-> INITIAL_BACKOFF]
    /\ dry_run = TRUE
    /\ drafts = <<>>
    /\ quota = [s \in Scopes |-> <<>>]
    /\ admit_calls = [c \in Callers |-> 0]
    /\ last_admit = [c \in Callers |-> <<>>]
    /\ clock = 0
    /\ \E x \in TruncTexts : text = [t \in Threads |-> IF t = "t1" THEN x ELSE <<>>]
    /\ context = [t \in Threads |-> <<>>]
    /\ twitter_client = [t \in Threads |-> FALSE]
    /\ in_reply_to = [t \in Threads |-> <<>>]

NextTrunc == \E t \in Threads : Truncate(t)

SpecTrunc == InitTrunc /\ [][NextTrunc]_vars

\* The process is started from main.main or from main_oauth.main; a worker
\* thread of the scheduler runs call_with_backoff or _backoff_try around a
\* call that can fail; SIGINT and SIGTERM can be delivered at any moment.
InitMain ==
    /\ TypeShape /\ NoPosting
    /\ shutdown_event = FALSE
    /\ \E k \in {"cwb", "bt"} : kind = [t \in Threads |-> IF t = "t1" THEN k ELSE "off"]
    /\ env = [t \in Threads |-> IF t = "t1" THEN LoopOutcomes ELSE {}]
    /\ max_retries = [t \in Threads |-> IF t = "t1" THEN MaxRetriesBound ELSE 0]
    /\ initial_backoff = [t \in Threads |-> INITIAL_BACKOFF]
    /\ entry \in {"main", "main_oauth"}
    /\ main_pc = "wait"
    /\ stop_event = FALSE
    /\ sched = "running"
    /\ signum = <<>>

WorkerStep(t) == call_with_backoff(t) \/ backoff_try(t)

NextMain ==
    \/ main_thread
    \/ \E t \in Threads : WorkerStep(t)

SpecMain ==
    /\ InitMain /\ [][NextMain]_vars
    /\ WF_vars(main_thread)
    /\ \A t \in Threads : WF_vars(WorkerStep(t))

\* ------------------------------------------------------------------ claims

Done(t) == pc[t] \in {"returned", "raised"}

Cwb(t) == kind[t] = "cwb"

\* C1: call_with_backoff with max_retries >= 0 invokes the call at most
\* max_retries + 1 times and, once it has ended, at least once; when every
\* attempt failed with a 429 error and shutdown was never signaled it has
\* invoked the call exactly max_retries + 1 times.
C1_AttemptBounds ==
    \A t \in Threads : (Cwb(t) /\ max_retries[t] >= 0) =>
        /\ calls[t] <= max_retries[t] + 1
        /\ Done(t) => calls[t] >= 1
        /\ (Done(t) /\ ~shutdown_event /\ fails[t] = calls[t])
               => calls[t] = max_retries[t] + 1

C1_Witness ==
    \E t \in Threads :
        /\ Cwb(t) /\ Done(t) /\ ~shutdown_event
        /\ max_retries[t] = MaxRetriesBound
        /\ fails[t] = calls[t] /\ calls[t] = MaxRetriesBound + 1

\* C2: when call_with_backoff returns after k transient failures it has made
\* k + 1 attempts and k sleeps and returns the value of the successful attempt;
\* after the return there is no further sleep and no further invocation.
C2_ReturnAfterRetries ==
    /\ [](\A t \in Threads : (Cwb(t) /\ pc[t] = "returned") =>
            /\ calls[t] = fails[t] + 1
            /\ sleeps[t] = fails[t]
            /\ fatals[t] = 0
            /\ result[t] # <<>> /\ result[t] = last_ret[t]
            /\ raised[t] = NoExc)
    /\ [][\A t \in Threads : (Cwb(t) /\ pc[t] = "returned") =>
            /\ calls'[t] = calls[t]
            /\ sleeps'[t] = sleeps[t]
            /\ result'[t] = result[t]]_vars

C2_Witness ==
    \E t \in Threads :
        /\ Cwb(t) /\ pc[t] = "returned" /\ ~shutdown_event
        /\ fails[t] = 2 /\ calls[t] = 3 /\ sleeps[t] = 2

\* C3: an error without a 429 response status is re-raised as it is, at once:
\* no sleep for it, no further invocation, and never the retries-exhausted
\* error, whatever retry budget is left.
C3_FatalReraised ==
    /\ [](\A t \in Threads :
            (Cwb(t) /\ last_exc[t] # <<>> /\ last_exc[t][1] \in FatalErrors) =>
                /\ pc[t] = "raised"
                /\ raised[t] = Reraise(last_exc[t][1])
                /\ raised[t].cls # "RateLimitException"
                /\ fatals[t] = 1
                /\ calls[t] = fails[t] + 1
                /\ sleeps[t] = fails[t])
    /\ [][\A t \in Threads : (Cwb(t) /\ pc[t] = "raised") =>
            /\ calls'[t] = calls[t]
            /\ sleeps'[t] = sleeps[t]
            /\ raised'[t] = raised[t]]_vars

C3_Witness ==
    \E t \in Threads :
        /\ Cwb(t) /\ pc[t] = "raised" /\ fatals[t] = 1
        /\ last_exc[t][1].status = 500
        /\ calls[t] = 1 /\ max_retries[t] = MaxRetriesBound

\* C4: when attempt number max_retries + 1 fails with a 429 error the call
\* ends with RateLimitException, whose cause is that error, and there is no
\* sleep after that last attempt.
C4_ExhaustedRaises ==
    \A t \in Threads :
        (Cwb(t) /\ max_retries[t] >= 0 /\ fails[t] = max_retries[t] + 1) =>
            /\ pc[t] = "raised"
            /\ raised[t].cls = "RateLimitException"
            /\ raised[t].cls # last_exc[t][1].cls
            /\ raised[t].cause = last_exc[t]
            /\ raised[t].self = <<>>
            /\ sleeps[t] = max_retries[t]

C4_Witness ==
    \E t \in Threads :
        /\ Cwb(t) /\ max_retries[t] = 1 /\ fails[t] = 2
        /\ raised[t].cls = "RateLimitException"

Asleep(t) == pc[t] \in {"cwb_sleep", "bt_sleep", "groq_sleep"}

HintKind(e) ==
    IF e.ra_kind = "int" /\ e.ra_val >= 0 THEN "retry-after"
    ELSE IF e.ra_kind = "absent" /\ e.rs_kind = "int" THEN "reset"
    ELSE IF e.ra_kind = "absent" /\ e.rs_kind = "absent" THEN "none"
    ELSE "other"

\* C6: a sleep of call_with_backoff lasts the hint of the error when the error
\* carries one (retry-after h, every h >= 0, or else the reset timestamp), and
\* min(current backoff, MAX_BACKOFF) only when it carries none.
C6_SleepEqualsHint ==
    \A t \in Threads : (Cwb(t) /\ pc[t] = "cwb_sleep") =>
        LET e == last_exc[t][1] IN
        CASE HintKind(e) = "retry-after" -> sleep_time[t] = e.ra_val
          [] HintKind(e) = "reset" -> sleep_time[t] = Max(1, e.rs_val - now_read[t])
          [] HintKind(e) = "none" -> sleep_time[t] = Min(backoff[t], MAX_BACKOFF)
          [] OTHER -> TRUE

\* ---- post_safe

Post(t) == kind[t] = "post"
Safe(t) == text[t] \in SafeTexts
Sending(t) == pc[t] \in {"bt_start", "bt_call", "bt_sleep", "ps_resp"}

\* the rows post_safe has added to the audit table
NewRows == { i \in DOMAIN drafts : drafts[i] # PriorDraft(i) }

\* the row of the running invocation
Row(t) == drafts[draft_id[t]]

\* C7 (as stated): a text that fails the safety check gets exactly one Draft,
\* which is in status failed from its creation on (never queued), with the
\* safety reason stored; post_safe returns nothing and makes no publish call
\* and no quota change.
C7_RejectedCreatedFailed ==
    /\ [](\A t \in Threads : (Post(t) /\ ~Safe(t)) =>
            /\ calls[t] = 0
            /\ draft_id[t] = 0 => NewRows = {}
            /\ draft_id[t] # 0 =>
                 /\ NewRows = {draft_id[t]}
                 /\ Row(t).status = "failed"
                 /\ Row(t).safety_flags = passes_safety(text[t]).reason
            /\ Done(t) => result[t] = <<>> /\ raised[t] = NoExc)
    /\ [][\A t \in Threads : (Post(t) /\ ~Safe(t) /\ post_safe(t)) =>
            quota' = quota /\ admit_calls' = admit_calls]_vars

\* C7 (amended): a text that fails the safety check gets exactly one Draft,
\* created in status queued with the safety reason in safety_flags, and marked
\* failed with that reason, by one update, before post_safe returns; post_safe
\* returns nothing and makes no publish call and no quota change.
C7_RejectedMarkedFailed ==
    /\ [](\A t \in Threads : (Post(t) /\ ~Safe(t)) =>
            /\ calls[t] = 0
            /\ pc[t] \in {"start", "ps_saved", "returned"}
            /\ draft_id[t] = 0 => NewRows = {}
            /\ draft_id[t] # 0 =>
                 /\ NewRows = {draft_id[t]}
                 /\ Row(t).safety_flags = passes_safety(text[t]).reason
                 /\ Row(t).safety_flags # ""
                 /\ Row(t).tweet_id = ""
            /\ pc[t] = "ps_saved" => Row(t).status = "queued" /\ Row(t).updates = 0
            /\ Done(t) =>
                 /\ Row(t).status = "failed"
                 /\ Row(t).reason = passes_safety(text[t]).reason
                 /\ Row(t).updates = 1
                 /\ result[t] = <<>> /\ raised[t] = NoExc)
    /\ [][\A t \in Threads : (Post(t) /\ ~Safe(t) /\ post_safe(t)) =>
            quota' = quota /\ admit_calls' = admit_calls]_vars

C7_Witness ==
    \E t \in Threads :
        /\ Post(t) /\ ~Safe(t) /\ Done(t) /\ ~dry_run /\ twitter_client[t]
        /\ Row(t).status = "failed" /\ Row(t).reason = "forbidden_claim"
        /\ Len(drafts) = MaxPriorDrafts + 1

\* C8: with DRY_RUN set, whatever the arguments, post_safe never invokes
\* create_tweet and none of its steps changes a quota counter; for a text that
\* passes safety it returns None with the Draft still queued.
C8_DryRunNoEffect ==
    /\ [](dry_run => \A t \in Threads : Post(t) =>
            /\ calls[t] = 0
            /\ ~Sending(t)
            /\ tweet_kwargs[t] = <<>>
            /\ (Done(t) /\ Safe(t)) =>
                 /\ NewRows = {draft_id[t]}
                 /\ Row(t).status = "queued" /\ Row(t).updates = 0
                 /\ result[t] = <<>> /\ raised[t] = NoExc)
    /\ [][\A t \in Threads : (dry_run /\ Post(t) /\ post_safe(t)) =>
            quota' = quota /\ admit_calls' = admit_calls]_vars

C8_Witness ==
    \E t \in Threads :
        /\ dry_run /\ Post(t) /\ Safe(t) /\ Done(t)
        /\ twitter_client[t] /\ in_reply_to[t] # <<>>
        /\ Row(t).status = "queued"

\* C9: with DRY_RUN off and a text that passes safety, post_safe has asked the
\* QuotaManager for admission before any invocation of create_tweet, so that a
\* denial keeps it from publishing.
C9_AdmissionBeforePublish ==
    \A t \in Threads : (Post(t) /\ ~dry_run /\ Safe(t)) =>
        (calls[t] > 0 => admit_calls[t] >= 1)

\* C10: when create_tweet returned a response of a supported shape (an object
\* whose data has an id, or a dict with the key "id"), post_safe has marked the
\* Draft posted with that identifier and returns the same identifier as a str.
C10_PostedWithResponseId ==
    \A t \in Threads :
        (/\ Post(t) /\ Done(t) /\ last_ret[t] # <<>>
         /\ last_ret[t][1].shape \in {"object", "mapping"}
         /\ last_ret[t][1].id # IdNone) =>
            /\ Row(t).status = "posted"
            /\ Row(t).tweet_id = last_ret[t][1].id.digits
            /\ Row(t).updates = 1
            /\ result[t] = <<last_ret[t][1].id.digits>>
            /\ raised[t] = NoExc

C10_Witness ==
    \E t \in Threads :
        /\ Post(t) /\ Done(t) /\ fails[t] >= 1
        /\ last_ret[t] = <<Response("mapping", IdInt("77"))>>
        /\ Row(t).status = "posted" /\ result[t] = <<"77">>

\* _backoff_try ended by raising the error of its last attempt
SendFailed(t) == calls[t] >= 1 /\ last_ret[t] = <<>> /\ sleeps[t] < calls[t]

\* C11: when the publish call ended in an error (retries used up, or an error
\* that is not transient), post_safe has marked the Draft failed with a reason
\* that embeds the error, returns None and raises nothing.
C11_SendFailureRecorded ==
    \A t \in Threads : (Post(t) /\ Done(t) /\ SendFailed(t)) =>
        /\ Row(t).status = "failed"
        /\ Row(t).reason = "exception:" \o last_exc[t][1].cls
        /\ Row(t).tweet_id = ""
        /\ result[t] = <<>>
        /\ raised[t] = NoExc

C11_Witness ==
    \E t \in Threads :
        /\ Post(t) /\ Done(t) /\ SendFailed(t) /\ fatals[t] = 0
        /\ Row(t).reason = "exception:TooManyRequests"

C13_DraftLifecycle ==
    /\ [](\A i \in DOMAIN drafts :
            /\ drafts[i].status \in {"queued", "posted", "failed"}
            /\ drafts[i].updates <= 1
            /\ drafts[i].updates = 0 <=> drafts[i].status = "queued"
            /\ drafts[i].tweet_id # "" <=> drafts[i].status = "posted")
    /\ [][\A i \in DOMAIN drafts :
            /\ i \in DOMAIN drafts'
            /\ drafts[i].status # "queued" => drafts'[i] = drafts[i]
            /\ drafts'[i] # drafts[i] =>
                 /\ drafts'[i].status \in {"posted", "failed"}
                 /\ drafts'[i].updates = 1]_vars

C13_Witness ==
    /\ Len(drafts) = MaxPriorDrafts + 1
    /\ \E t \in Threads :
         /\ Post(t) /\ Done(t)
         /\ last_ret[t] = <<Response("object", IdNone)>>
         /\ Row(t).status = "failed" /\ Row(t).reason = "no_tweet_id"

\* C18: inside post_safe, a publish call that fails with an error that is not
\* a rate-limit error is not retried: create_tweet is invoked exactly once,
\* no backoff sleep happens, and the Draft is marked failed.
C18_FatalNotRetried ==
    \A t \in Threads : (Post(t) /\ fatals[t] >= 1 /\ fails[t] = 0) =>
        /\ calls[t] = 1
        /\ sleeps[t] = 0
        /\ Done(t) => Row(t).status = "failed"

\* C19: inside post_safe, when every publish attempt fails transiently and
\* shutdown is never signalled, create_tweet has been attempted exactly
\* max_retries + 1 times when the Draft is marked failed.
C19_AttemptsMaxRetriesPlusOne ==
    \A t \in Threads :
        ( /\ Post(t) /\ Done(t) /\ ~shutdown_event
          /\ calls[t] >= 1 /\ fails[t] = calls[t]
          /\ Row(t).status = "failed" ) =>
            calls[t] = max_retries[t] + 1

Calling(t) == pc[t] \in {"cwb_call", "bt_call", "groq_call"}

WindowCount(s) == Len(InWindow(quota, s, clock))

\* the admission caller c has just been answered
Answered(c) == admit_calls'[c] # admit_calls[c]

\* C14: under every interleaving of the callers' admission requests and the
\* passing of time, the number of admitted events within the sliding window
\* of a scope never exceeds the ceiling; a request for a scope whose window
\* holds as many events as the ceiling is denied, and a request each of whose
\* scopes has room adds exactly one event to each.
C14_WindowNeverExceedsCeiling ==
    /\ [](\A s \in Scopes : WindowCount(s) <= QuotaCeiling)
    /\ [][\A c \in Callers : Answered(c) =>
            \A s \in last_admit'[c][1].scopes :
               /\ WindowCount(s) >= QuotaCeiling => ~last_admit'[c][1].ok
               /\ WindowCount(s)' <= WindowCount(s) + 1]_vars

\* two callers asked at the same time for the one slot left: one is admitted,
\* the other denied; and an admission after the window has slid
C14_Witness ==
    \E c1, c2 \in Callers : \E s \in Scopes :
        /\ c1 # c2
        /\ last_admit[c1] # <<>> /\ last_admit[c2] # <<>>
        /\ s \in last_admit[c1][1].scopes \cap last_admit[c2][1].scopes
        /\ last_admit[c1][1].ok /\ ~last_admit[c2][1].ok
        /\ WindowCount(s) = QuotaCeiling
        /\ quota[s][Len(quota[s])] = clock
        /\ clock > Window(s)
        /\ admit_calls[c1] = 2

\* C15: admission over a set of scopes is all-or-nothing: the answer is true
\* exactly when every scope asked for has room in its window; then the event
\* is recorded in every one of these scopes and in no other; when the answer
\* is false the event is recorded in no scope and no window count changes.
C15_AdmitAllOrNothing ==
    [][\A c \in Callers : Answered(c) =>
         LET a == last_admit'[c][1] IN
         /\ a.ok <=> \A s \in a.scopes : WindowCount(s) < QuotaCeiling
         /\ \A s \in Scopes :
              /\ InWindow(quota', s, clock) =
                   IF a.ok /\ s \in a.scopes
                   THEN Append(InWindow(quota, s, clock), clock)
                   ELSE InWindow(quota, s, clock)
              /\ s \notin a.scopes => quota'[s] = quota[s]]_vars

\* a denial for two scopes of which one had room, and nothing recorded in it
C15_Witness ==
    \E c \in Callers :
        /\ last_admit[c] # <<>>
        /\ ~last_admit[c][1].ok
        /\ last_admit[c][1].scopes = {"replies_hour", "posts_day"}
        /\ WindowCount("replies_hour") = 0
        /\ WindowCount("posts_day") = QuotaCeiling
        /\ admit_calls[c] = 1

Trunc(t) == kind[t] = "trunc"

\* C17: _truncate_to_tweet returns every text of length <= 280 unchanged, and
\* for every longer text returns a result of length <= 280.
C17_TruncateWithinLimit ==
    \A t \in Threads : (Trunc(t) /\ Done(t)) =>
        /\ raised[t] = NoExc
        /\ Len(text[t]) <= TweetLimit => result[t] = <<text[t]>>
        /\ Len(text[t]) > TweetLimit => Len(result[t][1]) <= TweetLimit

\* a text longer than the limit without any full stop: the longest result
C17_Witness ==
    \E t \in Threads :
        /\ Trunc(t) /\ Done(t)
        /\ Len(text[t]) = TweetLimit + 1
        /\ \A i \in DOMAIN text[t] : text[t][i] = "a"
        /\ Len(result[t][1]) = TruncAt + 1

\* C21: in call_with_backoff the sleep after the k-th consecutive transient
\* failure (k from 0) whose error carries no hint lasts
\* min(initial_backoff * 2^k, MAX_BACKOFF), whatever the earlier sleeps
\* lasted; it never exceeds MAX_BACKOFF, also for initial_backoff above it.
C21_UnhintedSleepDoubles ==
    \A t \in Threads :
        (Cwb(t) /\ pc[t] = "cwb_sleep" /\ HintKind(last_exc[t][1]) = "none") =>
            /\ sleep_time[t] = Min(initial_backoff[t] * 2 ^ attempt[t], MAX_BACKOFF)
            /\ sleep_time[t] <= MAX_BACKOFF
            /\ fails[t] = attempt[t] + 1 /\ fatals[t] = 0

\* the third sleep in a row, capped, begun from an initial backoff under the cap
C21_Witness ==
    \E t \in Threads :
        /\ Cwb(t) /\ pc[t] = "cwb_sleep" /\ HintKind(last_exc[t][1]) = "none"
        /\ attempt[t] = 2 /\ initial_backoff[t] < MAX_BACKOFF
        /\ sleep_time[t] = MAX_BACKOFF

\* C22: every post_safe invocation creates exactly one Draft, in its first
\* step, with the outcome of the safety check already in it; create_tweet is
\* invoked only after that, for a text that passed the check, while the Draft
\* is still queued; and the terminal update of the Draft is the last step,
\* after which no invocation of create_tweet follows.
C22_DraftBeforePublish ==
    /\ [][\A t \in Threads : Post(t) =>
            /\ Len(drafts') = Len(drafts) + (IF pc[t] = "start" /\ pc'[t] # "start"
                                             THEN 1 ELSE 0)
            /\ pc[t] # "start" => draft_id'[t] = draft_id[t]
            /\ calls'[t] # calls[t] =>
                 /\ draft_id[t] \in DOMAIN drafts
                 /\ Row(t).status = "queued" /\ Row(t).text = text[t]
                 /\ Row(t).safety_flags = "" /\ Safe(t)
                 /\ drafts' = drafts
            /\ (pc[t] # "start" /\ drafts' # drafts) =>
                 /\ Row(t)'.status \in {"posted", "failed"}
                 /\ Done(t)'
                 /\ calls'[t] = calls[t]]_vars
    /\ [](\A t \in Threads : (Post(t) /\ pc[t] # "start") =>
            /\ draft_id[t] = Len(drafts)
            /\ Row(t).text = text[t]
            /\ Row(t).safety_flags = "" <=> Safe(t)
            /\ (Row(t).status # "queued" \/ Done(t)) => ~Sending(t))

\* the whole order seen: draft created, three attempts, posted
C22_Witness ==
    \E t \in Threads :
        /\ Post(t) /\ Done(t) /\ calls[t] = 3 /\ sleeps[t] = 2
        /\ Row(t).status = "posted"
        /\ Len(drafts) = MaxPriorDrafts + 1

\* C23: in both entry points, main.main and main_oauth.main, the handling of
\* SIGINT or SIGTERM has set the shutdown signal by the time the handler is
\* left and before the scheduler is shut down, so that a backoff sleep a
\* worker thread is in ends by KeyboardInterrupt.
C23_SignalSetsShutdownFirst ==
    /\ [](sched = "shutdown" => shutdown_event)
    /\ []((signum # <<>> /\ main_pc \in {"wait", "finally", "exited"}) =>
             shutdown_event)
    /\ [][\A t \in Threads :
            (sched = "shutdown" /\ Asleep(t) /\ ~Asleep(t)') =>
                raised'[t] = KeyboardInterrupt]_vars

\* the last n characters of a text
Tail_(s, n) == SubSeq(s, Len(s) - n + 1, Len(s))

\* C24: for a text longer than the cap without any '.' in its first 275
\* characters, _truncate_to_tweet returns the cut text with an ellipsis '...'
\* at its end; and a result that ends in a single '.' ends at a '.' of the
\* input (the characters before it are followed by '.' in the input too).
C24_EllipsisWithoutSentence ==
    \A t \in Threads : (Trunc(t) /\ Done(t) /\ Len(text[t]) > TweetLimit) =>
        LET out == result[t][1]
            lead == Len(text[t]) - Len(Strip(text[t] \o <<"a">>)) + 1
        IN  /\ (\A i \in 1..TruncAt : text[t][i] # ".") =>
                 (Len(out) >= 3 /\ Tail_(out, 3) = Chars(3, "."))
            /\ (Len(out) >= 1 /\ out[Len(out)] = "."
                  /\ ~(Len(out) >= 3 /\ Tail_(out, 3) = Chars(3, "."))) =>
                 text[t][lead + Len(out)] = "."

\* C25: with DRY_RUN off, every post_safe invocation that has ended otherwise
\* than by the KeyboardInterrupt of a shutdown, with or without a client, by
\* return or by error, has left its Draft posted or failed, never queued.
C25_EndsTerminal ==
    \A t \in Threads :
        (Post(t) /\ Done(t) /\ ~dry_run /\ raised[t] # KeyboardInterrupt) =>
            Row(t).status \in {"posted", "failed"}

\* C26: post_safe returns a non-empty identifier exactly when it marked the
\* Draft of the invocation posted, and the value returned is the remote id
\* stored on the Draft; whenever create_tweet returned (the message was
\* published) the Draft is not marked failed.
C26_ReturnMatchesDraft ==
    \A t \in Threads : (Post(t) /\ Done(t)) =>
        /\ (result[t] # <<>> /\ result[t][1] # "") <=> Row(t).status = "posted"
        /\ Row(t).status = "posted" => result[t] = <<Row(t).tweet_id>>
        /\ last_ret[t] # <<>> => Row(t).status # "failed"

=============================================================================
